---- MODULE Spec2Model ----
(***************************************************************************)
(* Model of the two scripts of the repository:                             *)
(*   audcog_agm_agehistogram.py  - load / extract / filter / age join /   *)
(*                                 statistics / export pipeline            *)
(*   push_to_github.py           - git remote setup, add, commit, push     *)
(*                                                                         *)
(* A JSON value is a record [t, n, s, d]: its type t, and its number n,    *)
(* its text s or its entries d according to the type.  A JSON object (a    *)
(* Python dict) is an association list: a sequence of [k, v] entries with  *)
(* distinct keys, in insertion order, which is the order Python iterates   *)
(* in.  A text is a sequence of strings: one per character where the code  *)
(* inspects the characters (identifiers for the regular expression and     *)
(* startswith(), ages for int()), one for the whole text elsewhere.        *)
(***************************************************************************)
EXTENDS Integers, Sequences, FiniteSets, TLC

\* ------------------------------------------------------------- JSON values

JInt(n) == [t |-> "int", n |-> n, s |-> << >>, d |-> << >>]
JStr(s) == [t |-> "str", n |-> 0, s |-> s, d |-> << >>]
JDict(d) == [t |-> "dict", n |-> 0, s |-> << >>, d |-> d]
JNull == [t |-> "null", n |-> 0, s |-> << >>, d |-> << >>]
\* json.load turns Infinity, or a literal such as 1e999, into float('inf')
JInf == [t |-> "float", n |-> 0, s |-> <<"inf">>, d |-> << >>]

IsDict(x) == x.t = "dict"

\* an entry of a mapping under a key that is given as text
KeyedEntry(key, val) == [k |-> key, v |-> val]

\* an entry of a mapping under a name the code or the input spells out
Entry(name, val) == KeyedEntry(<<name>>, val)

\* name in d
Has(d, name) == \E i \in DOMAIN d : d[i].k = <<name>>

\* d[name]
Get(d, name) == d[CHOOSE i \in DOMAIN d : d[i].k = <<name>>].v

\* d.get(key, default)
GetOr(d, key, default) == IF Has(d, key) THEN Get(d, key) ELSE default

NotIn(a, e) == \A i \in DOMAIN a : a[i].k # e.k

Value(b, key) == b[CHOOSE i \in DOMAIN b : b[i].k = key].v

\* a.update(b), and also {**a, **b}: a key of b that a already holds keeps its
\* place and takes b's value, the other keys of b are appended in b's order
Update(a, b) ==
    [i \in DOMAIN a |-> IF NotIn(b, a[i]) THEN a[i] ELSE KeyedEntry(a[i].k, Value(b, a[i].k))]
        \o SelectSeq(b, LAMBDA e : NotIn(a, e))

\* ------------------------------------------------------------- characters

Digits == <<"0", "1", "2", "3", "4", "5", "6", "7", "8", "9">>

IsDigit(c) == \E i \in DOMAIN Digits : Digits[i] = c

DigitVal(c) == (CHOOSE i \in DOMAIN Digits : Digits[i] = c) - 1

IsSpace(c) == c \in {" ", "\n", "\t"}

AllDigits(s) == \A i \in DOMAIN s : IsDigit(s[i])

\* the digits of an int() literal: single underscores may stand between digits
DigitGroups(s) ==
    /\ s # << >>
    /\ \A i \in DOMAIN s : IsDigit(s[i]) \/ s[i] = "_"
    /\ IsDigit(s[1]) /\ IsDigit(s[Len(s)])
    /\ \A i \in 1..(Len(s) - 1) : ~(s[i] = "_" /\ s[i + 1] = "_")

RECURSIVE DecVal(_)
DecVal(s) == IF s = << >> THEN 0 ELSE 10 * DecVal(SubSeq(s, 1, Len(s) - 1)) + DigitVal(s[Len(s)])

RECURSIVE LStrip(_)
LStrip(s) == IF s # << >> /\ IsSpace(s[1]) THEN LStrip(Tail(s)) ELSE s

RECURSIVE RStrip(_)
RStrip(s) == IF s # << >> /\ IsSpace(s[Len(s)]) THEN RStrip(SubSeq(s, 1, Len(s) - 1)) ELSE s

RECURSIVE DecStr(_)
DecStr(n) == IF n < 10 THEN <<Digits[n + 1]>> ELSE DecStr(n \div 10) \o <<Digits[(n % 10) + 1]>>

\* str(x) of a JSON value
PyStr(x) ==
    CASE x.t = "str" -> x.s
      [] x.t = "int" -> IF x.n < 0 THEN <<"-">> \o DecStr(-x.n) ELSE DecStr(x.n)
      [] x.t = "float" -> x.s
      [] x.t = "null" -> <<"None">>
      [] OTHER -> <<"{...}">>

\* int(x) as lines 113-116 see it: "ok" with the number, "skip" when int()
\* raises ValueError or TypeError (caught, age = None), "raise" when it raises
\* anything else: int(float('inf')) raises OverflowError, which is neither
PyInt(x) ==
    CASE x.t = "int" -> [st |-> "ok", n |-> x.n]
      [] x.t = "str" ->
            LET s == RStrip(LStrip(x.s))
                neg == s # << >> /\ s[1] = "-"
                signed == s # << >> /\ s[1] \in {"-", "+"}
                body == IF signed THEN Tail(s) ELSE s
                digits == SelectSeq(body, IsDigit)
            IN  IF DigitGroups(body)
                THEN [st |-> "ok", n |-> IF neg THEN -DecVal(digits) ELSE DecVal(digits)]
                ELSE [st |-> "skip", n |-> 0]
      [] x.t = "float" -> [st |-> "raise", n |-> 0]
      [] OTHER -> [st |-> "skip", n |-> 0]

\* s.startswith(p)
StartsWith(s, p) == Len(s) >= Len(p) /\ SubSeq(s, 1, Len(p)) = p

AGM == <<"A", "G", "M">>

MinDigits == 4
MaxDigits == 6

\* the whole of s is AGM followed by 4 to 6 digits
AgmCore(s) ==
    /\ StartsWith(s, AGM)
    /\ Len(s) - 3 >= MinDigits
    /\ Len(s) - 3 <= MaxDigits
    /\ AllDigits(SubSeq(s, 4, Len(s)))

\* is_agm_participant: re.match(r'^AGM\d{4,6}$', str(participant_id)).  In
\* Python, $ matches at the end of the string and also just before a newline
\* that ends the string.
is_agm_participant(participant_id) ==
    LET s == PyStr(participant_id)
    IN  \/ AgmCore(s)
        \/ /\ s # << >>
           /\ s[Len(s)] = "\n"
           /\ AgmCore(SubSeq(s, 1, Len(s) - 1))

\* ------------------------------------------------------------- the inputs

\* Participant identifiers: one that matches the pattern, one that only starts
\* with AGM (three digits), one that does not start with AGM
IdAgm == <<"A", "G", "M", "1", "2", "3", "4">>
IdShort == <<"A", "G", "M", "1", "2", "3">>
IdOther == <<"X", "G", "M", "1", "2", "3", "4">>

IdList == <<IdAgm, IdShort, IdOther>>

\* Measurement sessions (values of the awm mapping).  The schema of a session
\* is not fixed: SessionColliding has fields named like the columns the
\* pipeline adds, SessionBadAge has a text and SessionNullAge a null under
\* 'age', SessionScalar is not a mapping at all.
SessionPlain == JDict(<<Entry("score", JInt(7))>>)
SessionColliding ==
    JDict(<<Entry("score", JInt(3)), Entry("participant_id", JStr(IdOther)),
            Entry("age", JInt(99)), Entry("sex", JStr(<<"x">>))>>)
SessionBadAge == JDict(<<Entry("age", JStr(<<"o", "l", "d">>))>>)
SessionNullAge == JDict(<<Entry("age", JNull)>>)
SessionScalar == JInt(5)

\* Demographic snapshots (values of the misc mapping)
MiscFoo == JDict(<<Entry("age", JStr(<<"f", "o", "o">>)), Entry("sex", JStr(<<"m">>))>>)
Misc45 == JDict(<<Entry("age", JStr(<<"4", "5">>)), Entry("sex", JStr(<<"f">>))>>)
Misc30 ==
    JDict(<<Entry("age", JInt(30)), Entry("sex", JStr(<<"m">>)),
            Entry("comp", JStr(<<"p", "c">>)), Entry("haids", JStr(<<"n", "o">>)),
            Entry("headphones", JStr(<<"i", "n">>))>>)
MiscNoAge == JDict(<<Entry("sex", JStr(<<"m">>))>>)
MiscInf == JDict(<<Entry("age", JInf)>>)
MiscScalar == JInt(1)

\* the timestamps that key the sessions and the demographic snapshots
Timestamps == [s |-> <<"s1", "s2", "s3">>, t |-> <<"t1", "t2", "t3">>]

Timestamped(p, vals) == JDict([i \in DOMAIN vals |-> Entry(Timestamps[p][i], vals[i])])

AwmShapes ==
    { << >>, <<SessionPlain>>, <<SessionPlain, SessionPlain>>,
      <<SessionPlain, SessionColliding>>, <<SessionPlain, SessionBadAge>>,
      <<SessionNullAge>>, <<SessionScalar>> }

MiscShapes ==
    { <<MiscFoo, Misc45>>, <<Misc45, Misc30>>, <<MiscFoo>>, <<MiscInf>>,
      <<MiscScalar, MiscNoAge, Misc30>> }

AwmChoices == {<< >>} \cup {<<Entry("awm", Timestamped("s", a))>> : a \in AwmShapes}

MiscChoices ==
    {<< >>, <<Entry("misc", JInt(0))>>}
        \cup {<<Entry("misc", Timestamped("t", m))>> : m \in MiscShapes}

\* A participant's value: a plain count, or a mapping with optional awm and misc
Count == JInt(3)

ValuePool == {Count} \cup {JDict(a \o m) : a \in AwmChoices, m \in MiscChoices}

MaxParticipants == 2

\* the i-th smallest element of a set of numbers
RECURSIVE Nth(_, _)
Nth(S, i) ==
    LET m == CHOOSE x \in S : \A y \in S : x <= y
    IN  IF i = 1 THEN m ELSE Nth(S \ {m}, i - 1)

\* The mapping under 'audcog-online' that gives the participants S the values f
AudcogOnline(S, f) ==
    [i \in 1..Cardinality(S) |-> KeyedEntry(IdList[Nth(S, i)], f[Nth(S, i)])]

\* The sets of participants of an input: up to MaxParticipants distinct identifiers
ParticipantSets == {T \in SUBSET DOMAIN IdList : Cardinality(T) <= MaxParticipants}

\* The file audcog_data.json when it holds no mapping under the key: absent,
\* not JSON, or JSON without the key
BadSources == {[kind |-> k, data |-> << >>] : k \in {"absent", "malformed", "nokey"}}

\* ------------------------------------------------------------- the pipeline

VARIABLES
    pc,                     \* the step the script is at
    source,                 \* the file audcog_data.json
    audcog_data,            \* data['audcog-online'], once read
    awm_records,            \* the flattened table (df_clean)
    skipped_participants,   \* the skipped list
    df_agm,                 \* the filtered table
    agm_records_with_age,   \* the joined table (df_agm_with_age)
    csv,                    \* the file audcog_agm_with_age.csv
    writes,                 \* how many times the file was written in full
    exc,                    \* the exception being propagated, if any
    raisedAt,               \* the step that raised it
    completed               \* the steps that ran to their end

pvars ==
    <<pc, source, audcog_data, awm_records, skipped_participants, df_agm,
      agm_records_with_age, csv, writes, exc, raisedAt, completed>>

\* push_to_github.py
VARIABLES
    gpc,                    \* the statement the script is at
    argv,                   \* sys.argv
    git,                    \* whether the git executable can be found
    gitAtStart,             \* the same, when the script started
    commit_message,         \* push_to_github's first argument
    remote_url,             \* push_to_github's second argument
    ran,                    \* the git commands attempted, in order, with their outcome
    reports,                \* the error messages the script itself printed
    uncaught,               \* the exception that ended the script, if any
    exit_status             \* the status the script exits with: 0 unless line 53
                            \* or an uncaught exception makes it 1

gvars ==
    <<gpc, argv, git, gitAtStart, commit_message, remote_url, ran, reports,
      uncaught, exit_status>>

vars == <<pvars, gvars>>

Unknown == JStr(<<"unknown">>)

NoFile == [state |-> "none", header |-> << >>, rows |-> << >>]

\* Lines 45-51: one record per session of awm_data, {participant_id,
\* session_timestamp, **session_data}.  ** raises TypeError on a session that
\* is not a mapping; the records appended before that stay in the list.
RECURSIVE ExtractSessions(_, _, _, _)
ExtractSessions(participant_id, awm_data, j, acc) ==
    IF j > Len(awm_data) THEN acc
    ELSE LET session_data == awm_data[j].v
         IN  IF ~IsDict(session_data) THEN [acc EXCEPT !.raised = TRUE]
             ELSE ExtractSessions(participant_id, awm_data, j + 1,
                    [acc EXCEPT !.records = Append(@,
                        Update(<<Entry("participant_id", JStr(participant_id)),
                                 Entry("session_timestamp", JStr(awm_data[j].k))>>,
                               session_data.d))])

\* Lines 38-56: the extraction loop over audcog_data.items()
RECURSIVE ExtractLoop(_, _, _)
ExtractLoop(items, i, acc) ==
    IF i > Len(items) \/ acc.raised THEN acc
    ELSE LET participant_id == items[i].k
             participant_data == items[i].v
         IN  IF IsDict(participant_data)
             THEN IF Has(participant_data.d, "awm")
                  THEN IF IsDict(Get(participant_data.d, "awm"))
                       THEN ExtractLoop(items, i + 1,
                              ExtractSessions(participant_id,
                                              Get(participant_data.d, "awm").d, 1, acc))
                       ELSE [acc EXCEPT !.raised = TRUE]
                  ELSE ExtractLoop(items, i + 1,
                         [acc EXCEPT !.skipped = Append(@,
                            [pid |-> participant_id, why |-> "no awm data", arg |-> << >>])])
             ELSE ExtractLoop(items, i + 1,
                    [acc EXCEPT !.skipped = Append(@,
                       [pid |-> participant_id, why |-> "sessions",
                        arg |-> PyStr(participant_data)])])

\* Lines 103-123: the scan of the misc mapping for the first entry whose age
\* int() accepts.  st is "found", "none" (age is None after the loop) or
\* "raise" (int() raised something other than ValueError and TypeError).
RECURSIVE MiscScan(_, _)
MiscScan(misc, j) ==
    IF j > Len(misc)
    THEN [st |-> "none", age |-> 0, sex |-> Unknown, computer_type |-> Unknown,
          hearing_aids |-> Unknown, headphones |-> Unknown]
    ELSE LET misc_data == misc[j].v
         IN  IF IsDict(misc_data) /\ Has(misc_data.d, "age")
             THEN LET c == PyInt(Get(misc_data.d, "age"))
                  IN  CASE c.st = "ok" ->
                             [st |-> "found", age |-> c.n,
                              sex |-> GetOr(misc_data.d, "sex", Unknown),
                              computer_type |-> GetOr(misc_data.d, "comp", Unknown),
                              hearing_aids |-> GetOr(misc_data.d, "haids", Unknown),
                              headphones |-> GetOr(misc_data.d, "headphones", Unknown)]
                        [] c.st = "raise" ->
                             [st |-> "raise", age |-> 0, sex |-> Unknown,
                              computer_type |-> Unknown, hearing_aids |-> Unknown,
                              headphones |-> Unknown]
                        [] OTHER -> MiscScan(misc, j + 1)
             ELSE MiscScan(misc, j + 1)

\* Lines 127-139: one joined record per session, record.update(awm_data)
RECURSIVE JoinSessions(_, _, _, _, _)
JoinSessions(participant_id, found, awm, j, acc) ==
    IF j > Len(awm) THEN acc
    ELSE LET awm_data == awm[j].v
         IN  IF ~IsDict(awm_data) THEN [acc EXCEPT !.raised = TRUE]
             ELSE JoinSessions(participant_id, found, awm, j + 1,
                    [acc EXCEPT !.records = Append(@,
                        Update(<<Entry("participant_id", JStr(participant_id)),
                                 Entry("session_timestamp", JStr(awm[j].k)),
                                 Entry("age", JInt(found.age)),
                                 Entry("sex", found.sex),
                                 Entry("computer_type", found.computer_type),
                                 Entry("hearing_aids", found.hearing_aids),
                                 Entry("headphones", found.headphones)>>,
                               awm_data.d))])

\* Line 99: the participants the join loop looks at
JoinSelects(participant_id) == StartsWith(participant_id, AGM)

\* Lines 98-139: the join loop over audcog_data.items().  'misc' in
\* participant_data raises TypeError when participant_data is a number.
RECURSIVE JoinLoop(_, _, _)
JoinLoop(items, i, acc) ==
    IF i > Len(items) \/ acc.raised THEN acc
    ELSE LET participant_id == items[i].k
             participant_data == items[i].v
         IN  IF ~JoinSelects(participant_id) THEN JoinLoop(items, i + 1, acc)
             ELSE IF ~IsDict(participant_data) THEN [acc EXCEPT !.raised = TRUE]
             ELSE IF ~(Has(participant_data.d, "misc")
                        /\ IsDict(Get(participant_data.d, "misc")))
                  THEN JoinLoop(items, i + 1, acc)
             ELSE LET found == MiscScan(Get(participant_data.d, "misc").d, 1)
                  IN  CASE found.st = "raise" -> [acc EXCEPT !.raised = TRUE]
                        [] found.st = "found" /\ Has(participant_data.d, "awm") ->
                             IF IsDict(Get(participant_data.d, "awm"))
                             THEN JoinLoop(items, i + 1,
                                    JoinSessions(participant_id, found,
                                                 Get(participant_data.d, "awm").d, 1, acc))
                             ELSE [acc EXCEPT !.raised = TRUE]
                        [] OTHER -> JoinLoop(items, i + 1, acc)

\* Line 80: df_clean[df_clean['participant_id'].apply(is_agm_participant)]
KeepsRow(record) == is_agm_participant(Get(record, "participant_id"))

FilterAgm(records) == SelectSeq(records, KeepsRow)

\* Line 154: df_agm_with_age['age'].dropna()
IsNull(x) == x.t = "null"

HasValue(record, col) == \E i \in DOMAIN record : record[i].k = col /\ ~IsNull(record[i].v)

HasAge(record) == ~IsNull(Get(record, "age"))

ValidAges(records) == [i \in DOMAIN SelectSeq(records, HasAge) |->
                          Get(SelectSeq(records, HasAge)[i], "age")]

\* Lines 161-213: the histogram and mean() need numbers; a text among the ages
\* raises TypeError
AgesAreNumbers(ages) == \A i \in DOMAIN ages : ages[i].t = "int"

\* pandas.DataFrame(records): the columns are the keys of the records, in the
\* order they first appear
RECURSIVE Columns(_, _, _)
Columns(records, i, cols) ==
    IF i > Len(records) THEN cols
    ELSE Columns(records, i + 1,
           cols \o [j \in DOMAIN SelectSeq(records[i], LAMBDA e : \A c \in DOMAIN cols : cols[c] # e.k)
                      |-> SelectSeq(records[i], LAMBDA e : \A c \in DOMAIN cols : cols[c] # e.k)[j].k])

\* to_csv: a cell is empty where the record has no value (NaN) or a null; a
\* column of whole numbers with a hole in it is a float column to pandas and
\* is written with a trailing .0
Cell(records, r, col) ==
    IF ~HasValue(records[r], col) THEN << >>
    ELSE LET x == Value(records[r], col)
             holes == \E q \in DOMAIN records : ~HasValue(records[q], col)
             whole == \A q \in DOMAIN records :
                         HasValue(records[q], col) => Value(records[q], col).t = "int"
         IN  IF x.t = "int" /\ holes /\ whole THEN PyStr(x) \o <<".0">> ELSE PyStr(x)

ToCsv(records) ==
    LET cols == Columns(records, 1, << >>)
    IN  [state |-> "full", header |-> cols,
         rows |-> [r \in DOMAIN records |-> [c \in DOMAIN cols |-> Cell(records, r, cols[c])]]]

\* what raising does: control goes to the except clauses of lines 240-245
Raise(name, step) ==
    /\ pc' = "raised"
    /\ exc' = name
    /\ raisedAt' = step

NoRaise == UNCHANGED <<exc, raisedAt>>

PInit ==
    /\ pc = "load"
    /\ \/ source \in BadSources
       \/ \E S \in ParticipantSets : \E f \in [S -> ValuePool] :
             source = [kind |-> "ok", data |-> AudcogOnline(S, f)]
    /\ audcog_data = << >>
    /\ awm_records = << >>
    /\ skipped_participants = << >>
    /\ df_agm = << >>
    /\ agm_records_with_age = << >>
    /\ csv = NoFile
    /\ writes = 0
    /\ exc = "none"
    /\ raisedAt = "none"
    /\ completed = {}

\* Lines 17-32 and 236-238: open and parse the file, look up 'audcog-online'
Load ==
    /\ UNCHANGED gvars
    /\ pc = "load"
    /\ CASE source.kind = "absent" ->
               /\ Raise("FileNotFoundError", "load")
               /\ UNCHANGED <<audcog_data, completed>>
         [] source.kind = "malformed" ->
               /\ Raise("JSONDecodeError", "load")
               /\ UNCHANGED <<audcog_data, completed>>
         [] source.kind = "nokey" ->
               /\ pc' = "done"
               /\ completed' = completed \cup {"load"}
               /\ NoRaise
               /\ UNCHANGED audcog_data
         [] OTHER ->
               /\ pc' = "extract"
               /\ audcog_data' = source.data
               /\ completed' = completed \cup {"load"}
               /\ NoRaise
    /\ UNCHANGED <<source, awm_records, skipped_participants, df_agm,
                   agm_records_with_age, csv, writes>>

\* Lines 35-61 and 234-235: the extraction pass
Extract ==
    /\ UNCHANGED gvars
    /\ pc = "extract"
    /\ LET r == ExtractLoop(audcog_data, 1,
                  [records |-> << >>, skipped |-> << >>, raised |-> FALSE])
       IN  /\ awm_records' = r.records
           /\ skipped_participants' = r.skipped
           /\ IF r.raised
              THEN Raise("TypeError", "extract") /\ UNCHANGED completed
              ELSE /\ pc' = IF r.records # << >> THEN "filter" ELSE "done"
                   /\ completed' = completed \cup {"extract"}
                   /\ NoRaise
    /\ UNCHANGED <<source, audcog_data, df_agm, agm_records_with_age, csv, writes>>

\* Lines 63-85 and 230-233: the filter on the identifier pattern
Filter ==
    /\ UNCHANGED gvars
    /\ pc = "filter"
    /\ df_agm' = FilterAgm(awm_records)
    /\ pc' = IF FilterAgm(awm_records) # << >> THEN "join" ELSE "done"
    /\ completed' = completed \cup {"filter"}
    /\ NoRaise
    /\ UNCHANGED <<source, audcog_data, awm_records, skipped_participants,
                   agm_records_with_age, csv, writes>>

\* Lines 96-143 and 226-228: the age join
Join ==
    /\ UNCHANGED gvars
    /\ pc = "join"
    /\ LET r == JoinLoop(audcog_data, 1, [records |-> << >>, raised |-> FALSE])
       IN  /\ agm_records_with_age' = r.records
           /\ IF r.raised
              THEN Raise("TypeError", "join") /\ UNCHANGED completed
              ELSE /\ pc' = IF r.records # << >> THEN "stats" ELSE "done"
                   /\ completed' = completed \cup {"join"}
                   /\ NoRaise
    /\ UNCHANGED <<source, audcog_data, awm_records, skipped_participants, df_agm,
                   csv, writes>>

\* Lines 145-213 and 224-225: the plots and the statistics of the ages
Stats ==
    /\ UNCHANGED gvars
    /\ pc = "stats"
    /\ LET valid_ages == ValidAges(agm_records_with_age)
       IN  IF valid_ages = << >>
           THEN pc' = "done" /\ completed' = completed \cup {"stats"} /\ NoRaise
           ELSE IF ~AgesAreNumbers(valid_ages)
           THEN Raise("TypeError", "stats") /\ UNCHANGED completed
           ELSE pc' = "export" /\ completed' = completed \cup {"stats"} /\ NoRaise
    /\ UNCHANGED <<source, audcog_data, awm_records, skipped_participants, df_agm,
                   agm_records_with_age, csv, writes>>

\* what a to_csv that raises OSError leaves behind
FailedWrites == {"none", "partial"}

\* Export with the write moved to a finally clause: the joined records are
\* also written while an exception is on its way to the handlers
ExportInFinally ==
    /\ UNCHANGED gvars
    /\ \/ /\ pc = "export"
          /\ csv' = ToCsv(agm_records_with_age)
          /\ writes' = writes + 1
          /\ pc' = "summary"
          /\ completed' = completed \cup {"export"}
          /\ NoRaise
       \/ /\ pc = "raised"
          /\ writes = 0
          /\ csv' = ToCsv(agm_records_with_age)
          /\ writes' = writes + 1
          /\ UNCHANGED <<pc, completed, exc, raisedAt>>
    /\ UNCHANGED <<source, audcog_data, awm_records, skipped_participants, df_agm,
                   agm_records_with_age>>

\* Lines 215-217: df_agm_with_age.to_csv.  The write succeeds, or the file
\* system refuses it (OSError) before or after some of the file is on disk.
Export ==
    /\ UNCHANGED gvars
    /\ pc = "export"
    /\ \/ /\ csv' = ToCsv(agm_records_with_age)
          /\ writes' = writes + 1
          /\ pc' = "summary"
          /\ completed' = completed \cup {"export"}
          /\ NoRaise
       \/ /\ \E left \in FailedWrites :
                csv' = [state |-> left, header |-> << >>, rows |-> << >>]
          /\ Raise("OSError", "export")
          /\ UNCHANGED <<writes, completed>>
    /\ UNCHANGED <<source, audcog_data, awm_records, skipped_participants, df_agm,
                   agm_records_with_age>>

\* Lines 219-222: the per-participant summary that is printed
Summary ==
    /\ UNCHANGED gvars
    /\ pc = "summary"
    /\ pc' = "done"
    /\ completed' = completed \cup {"summary"}
    /\ NoRaise
    /\ UNCHANGED <<source, audcog_data, awm_records, skipped_participants, df_agm,
                   agm_records_with_age, csv, writes>>

\* Lines 240-241: except FileNotFoundError
HandleNotFound ==
    /\ UNCHANGED gvars
    /\ pc = "raised"
    /\ exc = "FileNotFoundError"
    /\ pc' = "not_found"
    /\ UNCHANGED <<source, audcog_data, awm_records, skipped_participants, df_agm,
                   agm_records_with_age, csv, writes, exc, raisedAt, completed>>

\* Lines 242-245: except Exception
HandleUnexpected ==
    /\ UNCHANGED gvars
    /\ pc = "raised"
    /\ exc # "FileNotFoundError"
    /\ pc' = "failed"
    /\ UNCHANGED <<source, audcog_data, awm_records, skipped_participants, df_agm,
                   agm_records_with_age, csv, writes, exc, raisedAt, completed>>

PNext ==
    \/ Load
    \/ Extract
    \/ Filter
    \/ Join
    \/ Stats
    \/ Export
    \/ Summary
    \/ HandleNotFound
    \/ HandleUnexpected

\* ------------------------------------------------------------- push_to_github.py

\* the words a command line can hold after the script's name
ArgPool == {"fix", "https://host/repo.git"}

MaxArgs == 3

RECURSIVE SeqsUpTo(_, _)
SeqsUpTo(S, n) ==
    IF n = 0 THEN {<< >>}
    ELSE SeqsUpTo(S, n - 1) \cup
         {Append(q, x) : q \in {r \in SeqsUpTo(S, n - 1) : Len(r) = n - 1}, x \in S}

\* what git writes to its standard error when it fails
ErrTexts == {"fatal: unable to access the repository", "error: permission denied"}

\* " ".join(parts)
RECURSIVE JoinWords(_)
JoinWords(parts) ==
    IF Len(parts) <= 1 THEN parts
    ELSE <<parts[1], " ">> \o JoinWords(Tail(parts))

\* subprocess.run([...], check=True): git cannot be found (FileNotFoundError),
\* exits with 0, or exits with another status having written stderr
Outcomes ==
    IF git = "absent" THEN {[r |-> "notfound", stderr |-> ""]}
    ELSE {[r |-> "ok", stderr |-> ""]} \cup {[r |-> "failed", stderr |-> e] : e \in ErrTexts}

\* CalledProcessError.stderr as an f-string prints it: the text git wrote when
\* run() captured the output, None when it did not
EStderr(o, captured) == IF captured THEN o.stderr ELSE "None"

Ran(cmd, args, o) == ran' = Append(ran, [cmd |-> cmd, args |-> args, r |-> o.r, stderr |-> o.stderr])

\* an exception no except clause takes: traceback, exit status 1
Uncaught(name) ==
    /\ uncaught' = name
    /\ exit_status' = 1
    /\ gpc' = "exit"

GInit ==
    /\ gpc = "main"
    /\ argv \in {<<"push_to_github.py">> \o a : a \in SeqsUpTo(ArgPool, MaxArgs)}
    /\ git \in {"installed", "absent"}
    /\ gitAtStart = git
    /\ commit_message = << >>
    /\ remote_url = ""
    /\ ran = << >>
    /\ reports = << >>
    /\ uncaught = "none"
    /\ exit_status = 0

\* Lines 45-55: the command line
Main ==
    /\ UNCHANGED pvars
    /\ gpc = "main"
    /\ IF Len(argv) > 2
       THEN /\ commit_message' = JoinWords(SubSeq(argv, 2, Len(argv) - 1))
            /\ remote_url' = argv[Len(argv)]
            /\ gpc' = "get_url"
            /\ UNCHANGED exit_status
       ELSE /\ exit_status' = 1
            /\ gpc' = "exit"
            /\ UNCHANGED <<commit_message, remote_url>>
    /\ UNCHANGED <<argv, git, gitAtStart, ran, reports, uncaught>>

\* Line 17: git remote get-url origin, output captured.  Line 21 takes its
\* CalledProcessError; nothing takes FileNotFoundError here.
GetUrl ==
    /\ UNCHANGED pvars
    /\ gpc = "get_url"
    /\ \E o \in Outcomes :
          /\ Ran("remote get-url", <<"origin">>, o)
          /\ CASE o.r = "ok" -> gpc' = "set_url" /\ UNCHANGED <<uncaught, exit_status>>
               [] o.r = "failed" -> gpc' = "remote_add" /\ UNCHANGED <<uncaught, exit_status>>
               [] OTHER -> Uncaught("FileNotFoundError")
    /\ UNCHANGED <<argv, git, gitAtStart, commit_message, remote_url, reports>>

\* Lines 18-20: git remote set-url origin <url>, inside the same try: line 21
\* takes its CalledProcessError too
SetUrl ==
    /\ UNCHANGED pvars
    /\ gpc = "set_url"
    /\ \E o \in Outcomes :
          /\ Ran("remote set-url", <<"origin", remote_url>>, o)
          /\ CASE o.r = "ok" -> gpc' = "add" /\ UNCHANGED <<uncaught, exit_status>>
               [] o.r = "failed" -> gpc' = "remote_add" /\ UNCHANGED <<uncaught, exit_status>>
               [] OTHER -> Uncaught("FileNotFoundError")
    /\ UNCHANGED <<argv, git, gitAtStart, commit_message, remote_url, reports>>

\* Lines 21-24: git remote add origin <url>, run in the except clause: its
\* own exceptions are taken by nothing
RemoteAdd ==
    /\ UNCHANGED pvars
    /\ gpc = "remote_add"
    /\ \E o \in Outcomes :
          /\ Ran("remote add", <<"origin", remote_url>>, o)
          /\ CASE o.r = "ok" -> gpc' = "add" /\ UNCHANGED <<uncaught, exit_status>>
               [] o.r = "failed" -> Uncaught("CalledProcessError")
               [] OTHER -> Uncaught("FileNotFoundError")
    /\ UNCHANGED <<argv, git, gitAtStart, commit_message, remote_url, reports>>

\* Lines 26-43: one command of the second try.  Lines 39-41 print
\* CalledProcessError.stderr, lines 42-43 the git-not-found message; either
\* way push_to_github returns and the script ends with status 0.
Staged(at, cmd, args, next) ==
    /\ gpc = at
    /\ \E o \in Outcomes :
          /\ Ran(cmd, args, o)
          /\ CASE o.r = "ok" ->
                    /\ gpc' = next
                    /\ UNCHANGED reports
               [] o.r = "failed" ->
                    /\ reports' = Append(reports,
                          [kind |-> "git error", cmd |-> cmd, text |-> EStderr(o, FALSE)])
                    /\ gpc' = "exit"
               [] OTHER ->
                    /\ reports' = Append(reports,
                          [kind |-> "git not found", cmd |-> cmd, text |-> ""])
                    /\ gpc' = "exit"
    /\ UNCHANGED <<argv, git, gitAtStart, commit_message, remote_url, uncaught,
                   exit_status>>

\* Line 28
GitAdd == UNCHANGED pvars /\ Staged("add", "add", <<".">>, "commit")

\* Line 32
GitCommit == UNCHANGED pvars /\ Staged("commit", "commit", <<"-m">> \o commit_message, "push")

\* Line 36
GitPush == UNCHANGED pvars /\ Staged("push", "push", <<"-u", "origin", "main">>, "exit")

\* The environment: the git executable stops being found while the script runs
GitRemoved ==
    /\ UNCHANGED pvars
    /\ gpc \notin {"main", "exit"}
    /\ git = "installed"
    /\ git' = "absent"
    /\ UNCHANGED <<gpc, argv, gitAtStart, commit_message, remote_url, ran, reports,
                   uncaught, exit_status>>

GNext ==
    \/ Main
    \/ GetUrl
    \/ SetUrl
    \/ RemoteAdd
    \/ GitAdd
    \/ GitCommit
    \/ GitPush
    \/ GitRemoved

\* ------------------------------------------------------------- specifications

\* the script that is not running
GIdle ==
    /\ gpc = "exit"
    /\ argv = << >>
    /\ git = "installed"
    /\ gitAtStart = "installed"
    /\ commit_message = << >>
    /\ remote_url = ""
    /\ ran = << >>
    /\ reports = << >>
    /\ uncaught = "none"
    /\ exit_status = 0

PIdle ==
    /\ pc = "done"
    /\ source = [kind |-> "nokey", data |-> << >>]
    /\ audcog_data = << >>
    /\ awm_records = << >>
    /\ skipped_participants = << >>
    /\ df_agm = << >>
    /\ agm_records_with_age = << >>
    /\ csv = NoFile
    /\ writes = 0
    /\ exc = "none"
    /\ raisedAt = "none"
    /\ completed = {}

\* audcog_agm_agehistogram.py
Init == PInit /\ GIdle

Next == PNext

Spec == Init /\ [][Next]_vars

\* push_to_github.py
GitInit == GInit /\ PIdle

SpecGit == GitInit /\ [][GNext]_vars

\* ------------------------------------------------------------- the properties

\* What the properties speak of, stated from the input alone

\* the participant's value is a mapping
IsDetail(val) == IsDict(val)

\* the sessions of a participant: its awm mapping, empty when it has none
SessionsOf(val) ==
    IF IsDict(val) /\ Has(val.d, "awm") /\ IsDict(Get(val.d, "awm"))
    THEN Get(val.d, "awm").d ELSE << >>

\* the demographic entries of a participant: its misc mapping, empty when it has none
MiscOf(val) ==
    IF IsDict(val) /\ Has(val.d, "misc") /\ IsDict(Get(val.d, "misc"))
    THEN Get(val.d, "misc").d ELSE << >>

\* the misc entries whose age converts to a whole number
Convertible(misc) ==
    {j \in DOMAIN misc :
        /\ IsDict(misc[j].v)
        /\ Has(misc[j].v.d, "age")
        /\ PyInt(Get(misc[j].v.d, "age")).st = "ok"}

\* the first of them in iteration order
FirstConvertible(misc) == CHOOSE j \in Convertible(misc) : \A q \in Convertible(misc) : j <= q

\* the demographic snapshot of a participant with a convertible age
Snapshot(val) ==
    LET e == MiscOf(val)[FirstConvertible(MiscOf(val))].v.d
    IN  [age |-> JInt(PyInt(Get(e, "age")).n),
         sex |-> GetOr(e, "sex", Unknown),
         computer_type |-> GetOr(e, "comp", Unknown),
         hearing_aids |-> GetOr(e, "haids", Unknown),
         headphones |-> GetOr(e, "headphones", Unknown)]

\* the rows of a table that carry the identifier id
RowsOf(table, id) == {r \in DOMAIN table : Get(table[r], "participant_id") = JStr(id)}

\* the column of the export that holds the identifiers
IdColumn == CHOOSE c \in DOMAIN csv.header : csv.header[c] = <<"participant_id">>

\* the rows of the exported file that carry the identifier id
CsvRowsOf(id) ==
    IF csv.state # "full" \/ csv.rows = << >> THEN {}
    ELSE {r \in DOMAIN csv.rows : csv.rows[r][IdColumn] = id}

RECURSIVE SumOver(_, _)
SumOver(S, f) ==
    IF S = {} THEN 0
    ELSE LET x == CHOOSE y \in S : TRUE IN f[x] + SumOver(S \ {x}, f)

\* the input without the participants whose value is a plain count
WithoutCounts(items) == SelectSeq(items, LAMBDA e : IsDict(e.v))

AfterJoin == "join" \in completed

AfterExtract == "extract" \in completed

\* C1: no participant whose identifier fails ^AGM\d{4,6}$ has a record with its
\* identifier in the filtered table or in the joined table that is exported.
C1_UnmatchedNeverInOutputs ==
    \A i \in DOMAIN audcog_data :
        ~is_agm_participant(JStr(audcog_data[i].k)) =>
            /\ RowsOf(df_agm, audcog_data[i].k) = {}
            /\ RowsOf(agm_records_with_age, audcog_data[i].k) = {}
            /\ CsvRowsOf(audcog_data[i].k) = {}

\* C2: a participant whose value is a plain count never aborts the run,
\* whatever its identifier: when the other participants alone would pass the
\* extraction and the join, so does the whole input, and the tables are the
\* ones the other participants alone produce.
C2_CountEntrySkippedNotFatal ==
    LET rest == WithoutCounts(audcog_data)
        e == ExtractLoop(rest, 1, [records |-> << >>, skipped |-> << >>, raised |-> FALSE])
        j == JoinLoop(rest, 1, [records |-> << >>, raised |-> FALSE])
    IN  (rest # audcog_data /\ ~e.raised /\ ~j.raised) =>
            /\ raisedAt \notin {"extract", "join"}
            /\ pc \notin {"load", "extract"} => awm_records = e.records
            /\ AfterJoin => agm_records_with_age = j.records

\* C3: the age of every joined record is the whole number of the first misc
\* entry of its participant whose age converts; a participant without such an
\* entry has no joined record; an age that does not convert is passed over,
\* it does not stop the join.
C3_AgeFromFirstConvertible ==
    /\ \A r \in DOMAIN agm_records_with_age :
          \E i \in DOMAIN audcog_data :
             /\ Get(agm_records_with_age[r], "participant_id") = JStr(audcog_data[i].k)
             /\ Convertible(MiscOf(audcog_data[i].v)) # {}
             /\ Get(agm_records_with_age[r], "age") = Snapshot(audcog_data[i].v).age
    /\ (\A i \in DOMAIN audcog_data : IsDetail(audcog_data[i].v)) => raisedAt # "join"

\* a participant that qualifies for the join
Qualifies(entry) ==
    /\ is_agm_participant(JStr(entry.k))
    /\ IsDetail(entry.v)
    /\ Convertible(MiscOf(entry.v)) # {}

\* C4: once the join has run, the number of joined records is the sum of the
\* session counts of the qualifying participants.
C4_JoinedCountIsSessionSum ==
    AfterJoin =>
        Len(agm_records_with_age) =
            SumOver({i \in DOMAIN audcog_data : Qualifies(audcog_data[i])},
                    [i \in DOMAIN audcog_data |-> Len(SessionsOf(audcog_data[i].v))])

\* C5: every joined record carries the demographic snapshot of its
\* participant: the five columns equal the values of the misc entry in which
\* the age was found, "unknown" for a field that entry lacks.
C5_SameSnapshotOnEveryRecord ==
    \A r \in DOMAIN agm_records_with_age :
        \E i \in DOMAIN audcog_data :
           /\ Get(agm_records_with_age[r], "participant_id") = JStr(audcog_data[i].k)
           /\ Convertible(MiscOf(audcog_data[i].v)) # {}
           /\ LET snap == Snapshot(audcog_data[i].v)
                  rec == agm_records_with_age[r]
              IN  /\ Get(rec, "age") = snap.age
                  /\ Get(rec, "sex") = snap.sex
                  /\ Get(rec, "computer_type") = snap.computer_type
                  /\ Get(rec, "hearing_aids") = snap.hearing_aids
                  /\ Get(rec, "headphones") = snap.headphones

\* C6: a participant whose value is a bare integer has no row in the
\* flattened, the filtered or the joined table nor in the exported file, and
\* exactly one entry of the skipped list once the extraction has run.
C6_CountOnlyInSkippedList ==
    \A i \in DOMAIN audcog_data :
        ~IsDetail(audcog_data[i].v) =>
            /\ RowsOf(awm_records, audcog_data[i].k) = {}
            /\ RowsOf(df_agm, audcog_data[i].k) = {}
            /\ RowsOf(agm_records_with_age, audcog_data[i].k) = {}
            /\ CsvRowsOf(audcog_data[i].k) = {}
            /\ AfterExtract =>
                  Cardinality({q \in DOMAIN skipped_participants :
                                  skipped_participants[q].pid = audcog_data[i].k}) = 1

\* the steps that load, parse or process in memory
BeforeExport == {"load", "extract", "filter", "join", "stats"}

\* C7: the export file is written at most once, and only after loading,
\* extraction, filtering and the join ran to their end; a run that ends in
\* 'source not found' or 'unexpected failure' because a step before the
\* export raised has written no file, full or partial.
C7_ExportOnlyAfterSuccess ==
    /\ writes <= 1
    /\ csv.state # "none" => {"load", "extract", "filter", "join"} \subseteq completed
    /\ (pc \in {"raised", "not_found", "failed"} /\ raisedAt \in BeforeExport) => csv = NoFile

\* C7's case: a run in which two participants were joined, the file was
\* written and the script ran to its end
C7_Witness ==
    /\ pc = "done"
    /\ writes = 1
    /\ csv.state = "full"
    /\ Len(csv.rows) >= 2
    /\ Len(audcog_data) = 2

\* C9: after the extraction pass every participant whose value is a mapping is
\* either in the skipped list (no awm) or has exactly one flattened record per
\* session, with its own identifier and the session's timestamp, and the
\* flattened records number the sessions of the participants that have awm.
C9_OneRecordPerSession ==
    AfterExtract =>
        /\ \A i \in DOMAIN audcog_data :
              LET id == audcog_data[i].k
                  val == audcog_data[i].v
                  listed == {q \in DOMAIN skipped_participants :
                                skipped_participants[q].pid = id}
              IN  IsDetail(val) =>
                     IF Has(val.d, "awm")
                     THEN /\ listed = {}
                          /\ \A j \in DOMAIN SessionsOf(val) :
                                Cardinality({r \in RowsOf(awm_records, id) :
                                    Get(awm_records[r], "session_timestamp") = JStr(SessionsOf(val)[j].k)}) = 1
                          /\ Cardinality(RowsOf(awm_records, id)) = Len(SessionsOf(val))
                     ELSE /\ Cardinality(listed) = 1
                          /\ RowsOf(awm_records, id) = {}
        /\ Len(awm_records) =
              SumOver({i \in DOMAIN audcog_data : IsDetail(audcog_data[i].v)},
                      [i \in DOMAIN audcog_data |-> Len(SessionsOf(audcog_data[i].v))])

\* the place in ran of the commands named cmds
At(cmds) == {i \in DOMAIN ran : ran[i].cmd \in cmds}

\* C8: the script exits with a non-zero status when it is started with fewer
\* than a commit message and a remote URL, and when git is absent from the
\* system; the message it prints about a failing git command carries what
\* that command wrote to its standard error.
C8_NonZeroExitAndVerbatimReport ==
    /\ (gpc = "exit" /\ Len(argv) <= 2) => exit_status # 0
    /\ (gpc = "exit" /\ Len(argv) > 2 /\ gitAtStart = "absent") => exit_status # 0
    /\ \A q \in DOMAIN reports :
          reports[q].kind = "git error" =>
             \E i \in DOMAIN ran :
                /\ ran[i].cmd = reports[q].cmd
                /\ ran[i].r = "failed"
                /\ reports[q].text = ran[i].stderr

\* C10: add is attempted only after a remote-setup command succeeded, commit
\* only after add succeeded, push only after commit succeeded; no command is
\* run after a failing add or commit; remote add is attempted only when
\* remote get-url reported that there is no origin.
C10_FixedOrderOfGitCommands ==
    /\ \A i \in At({"add"}) :
          \E j \in At({"remote set-url", "remote add"}) : j < i /\ ran[j].r = "ok"
    /\ \A i \in At({"commit"}) : \E j \in At({"add"}) : j < i /\ ran[j].r = "ok"
    /\ \A i \in At({"push"}) : \E j \in At({"commit"}) : j < i /\ ran[j].r = "ok"
    /\ \A i \in At({"add", "commit"}) : ran[i].r # "ok" => i = Len(ran)
    /\ \A i \in At({"remote add"}) :
          \E j \in At({"remote get-url"}) : j < i /\ ran[j].r = "failed"

====
